---------------------------- MODULE Spec2Model ----------------------------
(***************************************************************************)
(* A model of openQDC's IO utilities (src/openqdc/utils/io.py) and of the  *)
(* raw-record adapters that use them (src/openqdc/datasets/...).           *)
(*                                                                         *)
(* Paths are sequences of text chunks.  A chunk is either a root marker    *)
(* ("~", a remote base URI) or one path component with its leading         *)
(* separator ("/x").  Every "/" of a path starts a chunk, so a match of    *)
(* one path inside another always falls on chunk boundaries and Python's   *)
(* str.replace on the text is Replace on the chunks.                       *)
(***************************************************************************)
EXTENDS Naturals, Sequences, FiniteSets

VARIABLES
    cache_dir,      \* the module global _OPENQDC_CACHE_DIR
    local_files,    \* local filesystem: path -> content, for the files present
    local_dirs,     \* local filesystem: the directories present
    remote_objs,    \* the bucket as gcsfs addresses it: path -> content
    remote_dirs,    \* directories created in the bucket by mkdirs
    strict_mkdirs,  \* whether the store's mkdirs honours exist_ok=False
    last,           \* the last call of the cache manager and how it ended
    calls,          \* number of calls made so far
    store,          \* persisted stores on disk: path -> what the file holds
    wpc,            \* each writer's position
    wkind,          \* each writer's operation
    wpath,          \* each writer's destination path
    wdone,          \* each writer's number of arrays written
    wbefore,        \* what the destination held when the writer opened it
    raw_present,    \* raw source files present in the datasets' roots
    xyz_files,      \* the .xyz files Metcalf's archives extract to
    result,         \* the last read_raw_entries call and how it ended
    raw_in,         \* the raw input handed to a record builder
    rec,            \* the record the builder returned, or what it raised
    configured      \* what the cache root was last configured from

cache_vars == <<cache_dir, local_files, local_dirs, remote_objs, remote_dirs,
                strict_mkdirs, last, calls>>

store_vars == <<store, wpc, wkind, wpath, wdone, wbefore>>

adapter_vars == <<raw_present, xyz_files, result>>

builder_vars == <<raw_in, rec>>

history_vars == <<configured>>

vars == <<cache_vars, store_vars, adapter_vars, builder_vars, history_vars>>

-----------------------------------------------------------------------------
(* Bounds *)

MaxCalls == 2
MaxAtoms == 2
MaxEnergyNames == 2
MaxForceNames == 2
MaxConfs == 2
MaxFrames == 2

-----------------------------------------------------------------------------
(* Text *)

None == <<"<None>">>
Home == <<"/h">>

IsPrefix(p, s) == Len(p) <= Len(s) /\ SubSeq(s, 1, Len(p)) = p

\* str.replace(old, new): every non-overlapping occurrence, leftmost first.
RECURSIVE Replace(_, _, _)
Replace(s, old, new) ==
    IF Len(s) < Len(old) \/ old = <<>> THEN s
    ELSE IF SubSeq(s, 1, Len(old)) = old
         THEN new \o Replace(SubSeq(s, Len(old) + 1, Len(s)), old, new)
         ELSE <<Head(s)>> \o Replace(Tail(s), old, new)

\* os.path.dirname: the path without its last component.
Dirname(p) == IF p = <<>> THEN <<>> ELSE SubSeq(p, 1, Len(p) - 1)

\* os.path.expanduser: a leading "~" becomes the home directory.
ExpandUser(p) == IF p # <<>> /\ Head(p) = "~" THEN Home \o Tail(p) ELSE p

\* os.path.expandvars: "$HOME" is set in the environment, other text is kept.
RECURSIVE ExpandVars(_)
ExpandVars(p) ==
    IF p = <<>> THEN <<>>
    ELSE (IF Head(p) = "$HOME" THEN Home ELSE <<Head(p)>>) \o ExpandVars(Tail(p))

\* os.path.normpath: empty components ("/") and "/." are dropped, "/.." pops.
RECURSIVE NormLoop(_, _)
NormLoop(done, rest) ==
    IF rest = <<>> THEN done
    ELSE IF Head(rest) \in {"/", "/."} THEN NormLoop(done, Tail(rest))
    ELSE IF Head(rest) = "/.."
         THEN NormLoop(IF done = <<>> THEN <<>> ELSE Dirname(done), Tail(rest))
    ELSE NormLoop(Append(done, Head(rest)), Tail(rest))

NormPath(p) == LET n == NormLoop(<<>>, p) IN IF n = <<>> THEN <<"/">> ELSE n

Ancestors(d) == {SubSeq(d, 1, k) : k \in 1..Len(d)}

-----------------------------------------------------------------------------
(* The two stores *)

GsRoot == "gs://qmdata-public/openqdc"
HttpsRoot == "https://storage.googleapis.com/qmdata-public/openqdc"

\* What a file interrupted in the middle of a transfer holds.
Partial == "partial"

\* The chunks a dataset path is made of below its root, and the dataset
\* paths taken as inputs: no suffix is a prefix of another.
Suffixes == {<<"/d">>, <<"/x", "/d">>}
LocalRoots == {Home \o <<"/c">>, <<"/x">>}
LocalPaths == {r \o s : r \in LocalRoots, s \in Suffixes}

\* The arguments set_cache_dir is called with.
CacheDirArgs == {None, <<"/x">>, <<"/x", "/">>, <<"~", "/c">>}

\* The values OPENQDC_CACHE_DIR has in the environment at import (None: unset).
EnvCacheDirs == {None, <<"/x", "/">>}

\* What one attempt of a transfer does: it succeeds, it fails before a byte
\* moved, or it breaks in the middle.
NetResults == {"ok", "refused", "broken"}

\* The network during one call: what the first attempt does, and what a
\* second one would do if the call made it.
Nets == {<<first, second>> : first \in NetResults, second \in {"ok", "refused"}}

\* The public https endpoint and the gs:// endpoint name the same objects:
\* the key under which gcsfs holds the object an https URL names.
CanonKey(p) ==
    IF p # <<>> /\ Head(p) = HttpsRoot THEN <<GsRoot>> \o Tail(p) ELSE p

\* A directory of the bucket exists when mkdirs made it or an object lies in it.
RemoteDirExists(objs, dirs, d) ==
    \/ d \in dirs
    \/ \E k \in DOMAIN objs : Len(d) < Len(k) /\ IsPrefix(d, k)

\* os.makedirs(d, exist_ok=True): the directories present afterwards, and
\* whether it succeeded (it fails where a component of d is a file).
RECURSIVE MakedirsFrom(_, _, _, _)
MakedirsFrom(files, dirs, d, k) ==
    IF k > Len(d) THEN [ok |-> TRUE, dirs |-> dirs]
    ELSE IF SubSeq(d, 1, k) \in DOMAIN files THEN [ok |-> FALSE, dirs |-> dirs]
    ELSE MakedirsFrom(files, dirs \cup {SubSeq(d, 1, k)}, d, k + 1)

makedirs(files, dirs, d) == MakedirsFrom(files, dirs, d, 1)

-----------------------------------------------------------------------------
(* Cache root *)

DefaultCacheDir(env) == IF env = None THEN <<"~", "/c">> ELSE NormPath(env)

\* get_local_cache(): the value it returns (it also creates the directory).
get_local_cache == ExpandUser(ExpandVars(cache_dir))

get_remote_cache(write_access) == IF write_access THEN <<GsRoot>> ELSE <<HttpsRoot>>

NoCall ==
    [op |-> "none", local_path |-> <<>>, overwrite |-> FALSE,
     local_cache |-> <<>>, remote_path |-> <<>>,
     local_existed |-> FALSE, remote_existed |-> FALSE,
     transfers |-> 0, net_first |-> "ok", outcome |-> "ok", ret |-> <<>>,
     found |-> FALSE]

Call(op, local_path, overwrite, remote_path) ==
    [NoCall EXCEPT !.op = op, !.local_path = local_path, !.overwrite = overwrite,
                   !.local_cache = get_local_cache, !.remote_path = remote_path,
                   !.local_existed = local_path \in DOMAIN local_files,
                   !.remote_existed = CanonKey(remote_path) \in DOMAIN remote_objs]

\* set_cache_dir without its early return on None
set_cache_dir_unguarded(d) ==
    /\ calls < MaxCalls
    /\ calls' = calls + 1
    /\ cache_dir' = NormPath(ExpandUser(d))
    /\ last' = [NoCall EXCEPT !.op = "set_cache_dir", !.local_path = d]
    /\ UNCHANGED <<local_files, local_dirs, remote_objs, remote_dirs, strict_mkdirs>>

set_cache_dir(d) ==
    /\ calls < MaxCalls
    /\ calls' = calls + 1
    /\ cache_dir' = IF d = None THEN cache_dir ELSE NormPath(ExpandUser(d))
    /\ last' = [NoCall EXCEPT !.op = "set_cache_dir", !.local_path = d]
    /\ UNCHANGED <<local_files, local_dirs, remote_objs, remote_dirs, strict_mkdirs>>

GetLocalCache ==
    LET made == makedirs(local_files, local_dirs, get_local_cache) IN
    /\ calls < MaxCalls
    /\ calls' = calls + 1
    /\ local_dirs' = made.dirs
    /\ last' = [NoCall EXCEPT !.op = "get_local_cache",
                              !.local_cache = get_local_cache,
                              !.outcome = IF made.ok THEN "ok" ELSE "FileExistsError",
                              !.ret = IF made.ok THEN get_local_cache ELSE <<>>]
    /\ UNCHANGED <<cache_dir, local_files, remote_objs, remote_dirs, strict_mkdirs>>

\* What the root was configured from: the environment at import, or the
\* argument of a set_cache_dir call.
FromEnv(env) == [by |-> "env", value |-> env]
FromCall(d) == [by |-> "set_cache_dir", value |-> d]

\* set_cache_dir(d), remembering its argument when it takes effect.
SetCacheDir(d) ==
    /\ set_cache_dir(d)
    /\ configured' = IF d = None THEN configured ELSE FromCall(d)

RootIdle == configured = FromEnv(None)

-----------------------------------------------------------------------------
(* Transfers *)

Put(f, k, v) == [x \in DOMAIN f \cup {k} |-> IF x = k THEN v ELSE f[x]]

\* os.path.exists
LocalExists(p) == p \in DOMAIN local_files \/ p \in local_dirs

\* gcp_filesys.exists: an object, or a directory of the bucket.
GsExists(p) == p \in DOMAIN remote_objs \/ RemoteDirExists(remote_objs, remote_dirs, p)

\* gcp_filesys_public.exists: the object the URL names.
HttpsExists(p) == CanonKey(p) \in DOMAIN remote_objs

\* A call that retried a failed transfer would use the next attempt.
TransferAttemptsRetry(net) == IF net[1] = "ok" THEN 1 ELSE 2

\* pull_locally and push_remote call get_file / put_file once: the attempt
\* that decides the call is the first.
TransferAttempts(net) == 1

\* gcp_filesys_public.get_file(remote_path, local_path)
get_file(remote_path, local_path, net) ==
    LET n == TransferAttempts(net)
        r == net[n]
        key == CanonKey(remote_path)
        res(outcome, files) ==
            [outcome |-> outcome, files |-> files, transfers |-> n]
    IN  IF r = "refused" THEN res("TransportError", local_files)
        ELSE IF key \notin DOMAIN remote_objs
             THEN res("FileNotFoundError", local_files)
        ELSE IF local_path \in local_dirs
             THEN res("IsADirectoryError", local_files)
        ELSE IF r = "broken"
             THEN res("TransportError", Put(local_files, local_path, Partial))
        ELSE res("ok", Put(local_files, local_path, remote_objs[key]))

\* gcp_filesys.put_file(local_path, remote_path)
put_file(local_path, remote_path, net) ==
    LET n == TransferAttempts(net)
        r == net[n]
    IN  IF local_path \notin DOMAIN local_files
        THEN [outcome |-> "FileNotFoundError", objs |-> remote_objs, transfers |-> 0]
        ELSE IF r # "ok"
             THEN [outcome |-> "TransportError", objs |-> remote_objs, transfers |-> n]
        ELSE [outcome |-> "ok", transfers |-> n,
              objs |-> Put(remote_objs, remote_path, local_files[local_path])]

\* gcp_filesys.mkdirs(d, exist_ok): a store that honours exist_ok=False
\* raises FileExistsError for a directory that is there; one without real
\* directories creates nothing and raises nothing.
gcs_mkdirs(d, exist_ok) ==
    IF RemoteDirExists(remote_objs, remote_dirs, d)
    THEN [ok |-> exist_ok \/ ~strict_mkdirs, dirs |-> remote_dirs]
    ELSE [ok |-> TRUE,
          dirs |-> IF strict_mkdirs THEN remote_dirs \cup Ancestors(d) ELSE remote_dirs]

\* A pull that fetched whatever is on disk.
NeedsFetchAlways(local_path, overwrite) == TRUE

\* pull_locally: `if not os.path.exists(local_path) or overwrite`
NeedsFetch(local_path, overwrite) == ~LocalExists(local_path) \/ overwrite

\* push_remote: `if not gcp_filesys.exists(remote_path) or overwrite`
NeedsUpload(remote_path, overwrite) == ~GsExists(remote_path) \/ overwrite

-----------------------------------------------------------------------------
(* Cache manager calls *)

pull_locally(local_path, overwrite, net) ==
    LET root == get_local_cache
        made_root == makedirs(local_files, local_dirs, root)
        remote_path == Replace(local_path, root, get_remote_cache(FALSE))
        made == makedirs(local_files, made_root.dirs, Dirname(local_path))
        call == Call("pull_locally", local_path, overwrite, remote_path)
        got == get_file(remote_path, local_path, net)
    IN  /\ calls < MaxCalls
        /\ calls' = calls + 1
        /\ IF ~made_root.ok \/ ~made.ok
           THEN /\ local_dirs' = IF made_root.ok THEN made.dirs ELSE made_root.dirs
                /\ local_files' = local_files
                /\ last' = [call EXCEPT !.outcome = "FileExistsError"]
           ELSE IF NeedsFetch(local_path, overwrite)
           THEN /\ local_dirs' = made.dirs
                /\ local_files' = got.files
                /\ last' = [call EXCEPT !.outcome = got.outcome,
                                        !.transfers = got.transfers,
                                        !.net_first = net[1],
                                        !.ret = IF got.outcome = "ok"
                                                THEN local_path ELSE <<>>]
           ELSE /\ local_dirs' = made.dirs
                /\ local_files' = local_files
                /\ last' = [call EXCEPT !.ret = local_path]
        /\ UNCHANGED <<cache_dir, remote_objs, remote_dirs, strict_mkdirs>>

push_remote(local_path, overwrite, net) ==
    LET root == get_local_cache
        made_root == makedirs(local_files, local_dirs, root)
        remote_path == Replace(local_path, root, get_remote_cache(overwrite))
        made == gcs_mkdirs(Dirname(remote_path), FALSE)
        call == Call("push_remote", local_path, overwrite, remote_path)
        put == put_file(local_path, remote_path, net)
    IN  /\ calls < MaxCalls
        /\ calls' = calls + 1
        /\ local_dirs' = made_root.dirs
        /\ IF ~made_root.ok \/ ~made.ok
           THEN /\ remote_dirs' = remote_dirs
                /\ remote_objs' = remote_objs
                /\ last' = [call EXCEPT !.outcome = "FileExistsError"]
           ELSE IF NeedsUpload(remote_path, overwrite)
           THEN /\ remote_dirs' = made.dirs
                /\ remote_objs' = put.objs
                /\ last' = [call EXCEPT !.outcome = put.outcome,
                                        !.transfers = put.transfers,
                                        !.net_first = net[1],
                                        !.ret = IF put.outcome = "ok"
                                                THEN remote_path ELSE <<>>]
           ELSE /\ remote_dirs' = made.dirs
                /\ remote_objs' = remote_objs
                /\ last' = [call EXCEPT !.ret = remote_path]
        /\ UNCHANGED <<cache_dir, local_files, strict_mkdirs>>

copy_exists(local_path) ==
    LET root == get_local_cache
        made_root == makedirs(local_files, local_dirs, root)
        remote_path == Replace(local_path, root, get_remote_cache(FALSE))
        call == Call("copy_exists", local_path, FALSE, remote_path)
    IN  /\ calls < MaxCalls
        /\ calls' = calls + 1
        /\ local_dirs' = made_root.dirs
        /\ last' = IF made_root.ok
                   THEN [call EXCEPT !.found = LocalExists(local_path)
                                               \/ HttpsExists(remote_path)]
                   ELSE [call EXCEPT !.outcome = "FileExistsError"]
        /\ UNCHANGED <<cache_dir, local_files, remote_objs, remote_dirs, strict_mkdirs>>

-----------------------------------------------------------------------------
(* Writers of a persisted store *)

NumWriters == 2
NumArrays == 2

Writers == 1..NumWriters
StorePaths == {r \o <<"/d">> : r \in LocalRoots}
NoPath == <<>>

\* What a path holds: nothing, or a file with some of its named arrays
\* written, closed or not.
Absent == [present |-> FALSE, written |-> 0, closed |-> FALSE]
Truncated == [present |-> TRUE, written |-> 0, closed |-> FALSE]
Committed == [present |-> TRUE, written |-> NumArrays, closed |-> TRUE]

\* create_hdf5_file(path): fsspec.open(path, "wb").open() truncates or
\* creates the destination itself, and h5py.File(fp, "a") hands the open
\* file to the caller.  No lock is taken and nothing is staged.
create_hdf5_file(w, path) ==
    /\ wpc[w] = "idle"
    /\ wkind' = [wkind EXCEPT ![w] = "create_hdf5_file"]
    /\ wpath' = [wpath EXCEPT ![w] = path]
    /\ wbefore' = [wbefore EXCEPT ![w] = store[path]]
    /\ wdone' = [wdone EXCEPT ![w] = 0]
    /\ store' = [store EXCEPT ![path] = Truncated]
    /\ wpc' = [wpc EXCEPT ![w] = "writing"]

\* pull_locally(path, overwrite), first half: the existence test.
PullCheck(w, path, overwrite) ==
    /\ wpc[w] = "idle"
    /\ wkind' = [wkind EXCEPT ![w] = "pull_locally"]
    /\ wpath' = [wpath EXCEPT ![w] = path]
    /\ wpc' = [wpc EXCEPT ![w] = IF ~store[path].present \/ overwrite
                                 THEN "fetch" ELSE "done"]
    /\ UNCHANGED <<store, wdone, wbefore>>

\* pull_locally, second half: get_file opens the local path for writing.
PullOpen(w) ==
    /\ wpc[w] = "fetch"
    /\ wbefore' = [wbefore EXCEPT ![w] = store[wpath[w]]]
    /\ wdone' = [wdone EXCEPT ![w] = 0]
    /\ store' = [store EXCEPT ![wpath[w]] = Truncated]
    /\ wpc' = [wpc EXCEPT ![w] = "writing"]
    /\ UNCHANGED <<wkind, wpath>>

\* The holder of the open file writes its next named array (or chunk).
WriteArray(w) ==
    /\ wpc[w] = "writing"
    /\ wdone[w] < NumArrays
    /\ wdone' = [wdone EXCEPT ![w] = wdone[w] + 1]
    /\ store' = [store EXCEPT ![wpath[w]] =
                    [present |-> TRUE, written |-> wdone[w] + 1, closed |-> FALSE]]
    /\ UNCHANGED <<wpc, wkind, wpath, wbefore>>

\* The holder closes the file after the last array.
CloseFile(w) ==
    /\ wpc[w] = "writing"
    /\ wdone[w] = NumArrays
    /\ store' = [store EXCEPT ![wpath[w]] =
                    [present |-> TRUE, written |-> wdone[w], closed |-> TRUE]]
    /\ wpc' = [wpc EXCEPT ![w] = "done"]
    /\ UNCHANGED <<wkind, wpath, wdone, wbefore>>

\* The write raises or is abandoned before the close: nothing in
\* create_hdf5_file or pull_locally removes or restores the destination.
FailWrite(w) ==
    /\ wpc[w] = "writing"
    /\ wpc' = [wpc EXCEPT ![w] = "failed"]
    /\ UNCHANGED <<store, wkind, wpath, wdone, wbefore>>

StoreInit ==
    /\ store \in [StorePaths -> {Absent, Committed}]
    /\ wpc = [w \in Writers |-> "idle"]
    /\ wkind = [w \in Writers |-> "none"]
    /\ wpath = [w \in Writers |-> NoPath]
    /\ wdone = [w \in Writers |-> 0]
    /\ wbefore = [w \in Writers |-> Absent]

StoreIdle ==
    /\ store = [p \in StorePaths |-> Absent]
    /\ wpc = [w \in Writers |-> "idle"]
    /\ wkind = [w \in Writers |-> "none"]
    /\ wpath = [w \in Writers |-> NoPath]
    /\ wdone = [w \in Writers |-> 0]
    /\ wbefore = [w \in Writers |-> Absent]

-----------------------------------------------------------------------------
(* Raw record adapters *)

Qm7xLastFile == 8
NumTarFiles == 16
NumMetcalfEnergyMethods == 5
MaxMissing == 1
MaxBlocks == 2
MaxXyzFiles == 2

Raw(ds, i) == [ds |-> ds, file |-> i]
Qm7xFiles == {Raw("qm7x", i) : i \in 1..Qm7xLastFile}
GdmlFiles == {Raw("gdml", 1)}
\* EXPECTED_TAR_FILES, numbered in the order extract_raw_tar_gz visits them.
MetcalfTars == {Raw("metcalf", i) : i \in 1..NumTarFiles}
AllRaw == Qm7xFiles \cup GdmlFiles \cup MetcalfTars

\* One record of an adapter's output, or the None that stands for a block
\* content_to_xyz gave up on.
Item(n_atoms, rows, n_energies) ==
    [is_none |-> FALSE, n_atoms |-> n_atoms, rows |-> rows, n_energies |-> n_energies]
NoneItem == [is_none |-> TRUE, n_atoms |-> 0, rows |-> 0, n_energies |-> 0]

\* One block of an .xyz file (the text between two blank lines): whether its
\* first line parses as an integer and to which, whether it has a second
\* line and of how many comma-separated fields, and its number of atom lines.
Block(count_ok, declared, has_header, fields, atoms) ==
    [count_ok |-> count_ok, declared |-> declared, has_header |-> has_header,
     fields |-> fields, atoms |-> atoms]
Blocks ==
    {Block(TRUE, 2, TRUE, 7, 2),     \* well formed: name, five energies, tail
     Block(FALSE, 0, TRUE, 7, 2),    \* first line is not an integer
     Block(FALSE, 0, FALSE, 0, 0),   \* empty block (text after a last blank line)
     Block(TRUE, 3, TRUE, 4, 2),     \* declares 3 atoms, lists 2; two energies
     Block(TRUE, 1, TRUE, 7, 1)}     \* a single atom line

SeqsUpTo(S, n) == UNION {[1..k -> S] : k \in 1..n}
XyzFiles == SeqsUpTo(Blocks, MaxBlocks)

Max(a, b) == IF a >= b THEN a ELSE b

\* check_file / load_hdf5_file: FileNotFoundError unless the file is there.
load_hdf5_file(path) == IF path \in raw_present THEN "ok" ELSE "FileNotFoundError"

\* decompress_tar_gz (openqdc.raws.config_factory): opening an archive that
\* is not there raises FileNotFoundError, as its caller expects.
decompress_tar_gz(path) == IF path \in raw_present THEN "ok" ELSE "FileNotFoundError"

Failed(adapter, outcome) == [adapter |-> adapter, outcome |-> outcome, records |-> <<>>]
Returned(adapter, records) == [adapter |-> adapter, outcome |-> "ok", records |-> records]

\* The molecules of one QM7X file: here one molecule of two atoms, with the
\* two energies read_mol takes.
Qm7xMols(i) == <<Item(2, 2, 2)>>

\* QM7X.read_raw_entries: for i in range(1, 9): load_hdf5_file, read_mol.
RECURSIVE Qm7xLoop(_, _)
Qm7xLoop(i, samples) ==
    IF i > Qm7xLastFile THEN Returned("qm7x", samples)
    ELSE IF load_hdf5_file(Raw("qm7x", i)) # "ok"
         THEN Failed("qm7x", load_hdf5_file(Raw("qm7x", i)))
    ELSE Qm7xLoop(i + 1, samples \o Qm7xMols(i))

QM7X_read_raw_entries ==
    /\ result' = Qm7xLoop(1, <<>>)
    /\ UNCHANGED <<raw_present, xyz_files>>

\* GDML.read_raw_entries -> read_qc_archive_h5: load_hdf5_file, then one
\* extract_entry per molecule (here one, with GDML's three energies).
GDML_read_raw_entries ==
    /\ result' = IF load_hdf5_file(Raw("gdml", 1)) # "ok"
                 THEN Failed("gdml", load_hdf5_file(Raw("gdml", 1)))
                 ELSE Returned("gdml", <<Item(2, 2, 3)>>)
    /\ UNCHANGED <<raw_present, xyz_files>>

\* extract_raw_tar_gz: every expected archive in turn; a FileNotFoundError
\* of decompress_tar_gz is raised again as FileNotFoundError.
RECURSIVE extract_raw_tar_gz(_)
extract_raw_tar_gz(i) ==
    IF i > NumTarFiles THEN "ok"
    ELSE IF decompress_tar_gz(Raw("metcalf", i)) = "FileNotFoundError"
         THEN "FileNotFoundError"
    ELSE extract_raw_tar_gz(i + 1)

\* content_to_xyz: a block whose first two lines do not parse is logged and
\* becomes None; otherwise np.loadtxt reads the atom lines (fewer than two
\* of them give an array d[:, 0] cannot index, which raises).
content_to_xyz(b) ==
    IF ~b.count_ok \/ ~b.has_header THEN [raised |-> "", item |-> NoneItem]
    ELSE IF b.atoms < 2 THEN [raised |-> "IndexError", item |-> NoneItem]
    ELSE [raised |-> "", item |-> Item(b.declared, b.atoms, Max(b.fields - 2, 0))]

\* read_xyz: [content_to_xyz(content, subset) for content in contents]
RECURSIVE read_xyz(_, _)
read_xyz(blocks, res) ==
    IF blocks = <<>> THEN [raised |-> "", items |-> res]
    ELSE LET r == content_to_xyz(Head(blocks)) IN
         IF r.raised # "" THEN [raised |-> r.raised, items |-> <<>>]
         ELSE read_xyz(Tail(blocks), Append(res, r.item))

\* Metcalf.read_raw_entries: for filename in glob(...): data.extend(read_xyz(...))
RECURSIVE MetcalfLoop(_, _)
MetcalfLoop(files, data) ==
    IF files = <<>> THEN Returned("metcalf", data)
    ELSE LET r == read_xyz(Head(files), <<>>) IN
         IF r.raised # "" THEN Failed("metcalf", r.raised)
         ELSE MetcalfLoop(Tail(files), data \o r.items)

Metcalf_read_raw_entries ==
    /\ result' = IF extract_raw_tar_gz(1) # "ok"
                 THEN Failed("metcalf", extract_raw_tar_gz(1))
                 ELSE MetcalfLoop(xyz_files, <<>>)
    /\ UNCHANGED <<raw_present, xyz_files>>

NoResult == [adapter |-> "none", outcome |-> "ok", records |-> <<>>]

\* The sets of at most n raw files.
RECURSIVE MissingSets(_)
MissingSets(n) ==
    IF n = 0 THEN {{}}
    ELSE {A \cup B : A \in MissingSets(n - 1), B \in {{}} \cup {{f} : f \in AllRaw}}

AdapterInit ==
    /\ \E M \in MissingSets(MaxMissing) : raw_present = AllRaw \ M
    /\ xyz_files \in SeqsUpTo(XyzFiles, MaxXyzFiles)
    /\ result = NoResult

AdapterIdle ==
    /\ raw_present = {}
    /\ xyz_files = <<>>
    /\ result = NoResult

-----------------------------------------------------------------------------
(* Record builders *)

\* float32 values: a number, or not-a-number.
NaN == [nan |-> TRUE, v |-> 0]
Float(v) == [nan |-> FALSE, v |-> v]

\* a + b on floats
FloatAdd(a, b) == IF a.nan \/ b.nan THEN NaN ELSE Float(a.v + b.v)

\* arr.reshape((-1, 3)) of a flat array of len elements: possible when len is
\* a multiple of 3, and then it has len / 3 rows.
CanReshape3(len) == len % 3 = 0
Rows3(len) == len \div 3

\* The flat arrays of a raw row: up to MaxAtoms rows of 3 values, and one
\* array that is no whole number of rows.
FlatLens == {3 * r : r \in 0..MaxAtoms} \cup {3 * MaxAtoms - 1}

\* Element e of the array df[k][i] of force name k (distinct per k and e).
SourceValue(k, e) == Float(10 * k + e)

\* df[k][i].reshape((-1, 3))[a, c]
SourceAt(k, a, c) == SourceValue(k, 3 * (a - 1) + c)

RECURSIVE Sum(_)
Sum(s) == IF s = <<>> THEN 0 ELSE Head(s) + Sum(Tail(s))

\* A record as a builder returns it: n_atoms has one entry per frame, rows is
\* the number of rows of atomic_inputs, energies has one entry per row of
\* the energies array, holding that row's length.
Built(builder, n_atoms, rows, energies, has_forces, forces_shape, forces) ==
    [builder |-> builder, raised |-> "", n_atoms |-> n_atoms, rows |-> rows,
     energies |-> energies, has_forces |-> has_forces,
     forces_shape |-> forces_shape, forces |-> forces]

Raised(builder, error) ==
    [builder |-> builder, raised |-> error, n_atoms |-> <<>>, rows |-> 0,
     energies |-> <<>>, has_forces |-> FALSE, forces_shape |-> <<>>,
     forces |-> <<>>]

NoRecord == Raised("none", "")

\* forces = np.zeros((n, 3, nf)) without the NaN fill
InitialForcesZero(n, nf) ==
    [idx \in (1..n) \X (1..3) \X (1..nf) |-> Float(0)]

\* forces = np.zeros((n, 3, nf)); forces += np.nan
InitialForces(n, nf) ==
    [idx \in (1..n) \X (1..3) \X (1..nf) |-> FloatAdd(Float(0), NaN)]

\* for j, k in enumerate(force_target_names):
\*     if len(df[k][i]) != 0: forces[:, :, j] = df[k][i].reshape((-1, 3))
\* The assignment broadcasts: the array needs n rows, or one row that is
\* repeated for every atom; any other shape raises.
RECURSIVE FillForces(_, _, _, _)
FillForces(forces, n, data, j) ==
    IF j > Len(data) THEN [raised |-> "", forces |-> forces]
    ELSE IF data[j] = 0 THEN FillForces(forces, n, data, j + 1)
    ELSE IF ~CanReshape3(data[j]) \/ Rows3(data[j]) \notin {n, 1}
         THEN [raised |-> "ValueError", forces |-> forces]
    ELSE FillForces([idx \in DOMAIN forces |->
                        IF idx[3] = j
                        THEN SourceAt(j, IF Rows3(data[j]) = 1 THEN 1 ELSE idx[1], idx[2])
                        ELSE forces[idx]],
                    n, data, j + 1)

\* extract_entry(df, i, subset, energy_target_names, force_target_names) on
\* row i of df: df.symbols atoms, a flat geometry of df.geometry values, the
\* energy fields 1..df.fields, and for each force name the length of its
\* flat array.  energy_target_names are the fields 1..df.energy_target_names.
extract_entry(df) ==
    LET n == df.symbols
        positions == Rows3(df.geometry)
        nf == Len(df.force_data)
        filled == FillForces(InitialForces(positions, nf), positions, df.force_data, 1)
    IN  IF ~CanReshape3(df.geometry) THEN Raised("extract_entry", "ValueError")
        ELSE IF df.energy_target_names > df.fields THEN Raised("extract_entry", "KeyError")
        ELSE IF positions # n THEN Raised("extract_entry", "ValueError")
        ELSE IF nf = 0
             THEN Built("extract_entry", <<n>>, positions, <<df.energy_target_names>>,
                        FALSE, <<>>, <<>>)
        ELSE IF filled.raised # "" THEN Raised("extract_entry", filled.raised)
        ELSE Built("extract_entry", <<n>>, positions, <<df.energy_target_names>>,
                   TRUE, <<positions, 3, nf>>, filled.forces)

\* QM7X
Qm7xEnergyNames == {"ePBE0", "eMBD"}
Qm7xForceNames == {"pbe0FOR", "vdwFOR"}

\* read_mol(mol_h5, ...) on the conformations m of one molecule: each has
\* atNUM of c.atNUM atoms, atXYZ of c.atXYZ rows, the energy fields
\* c.fields, and force arrays of atXYZ's shape that agree or not.
read_mol(m) ==
    LET n_atoms == [c \in 1..Len(m) |-> m[c].atNUM]
        xyz == Sum([c \in 1..Len(m) |-> m[c].atXYZ])
    IN  IF Sum(n_atoms) # xyz THEN Raised("read_mol", "ValueError")
        ELSE IF \E c \in 1..Len(m) : ~m[c].forces_agree THEN Raised("read_mol", "ValueError")
        ELSE IF \E c \in 1..Len(m) : ~(Qm7xEnergyNames \subseteq m[c].fields)
             THEN Raised("read_mol", "KeyError")
        ELSE Built("read_mol", n_atoms, xyz,
                   [c \in 1..Len(m) |-> Cardinality(Qm7xEnergyNames)],
                   TRUE, <<xyz, 3, Cardinality(Qm7xForceNames)>>, <<>>)

\* RevMD17
\* shape_atom_inputs(coords, atom_species): the rows of the result, or the
\* ValueError of np.concatenate when the tiled species and the coordinates
\* differ in length.
shape_atom_inputs(frames, atoms, atom_species) ==
    IF atom_species * frames # frames * atoms
    THEN [raised |-> "ValueError", rows |-> 0]
    ELSE [raised |-> "", rows |-> frames * atoms]

\* read_npz_entry(filename, root) on the arrays of one file: coords of shape
\* (frames, atoms, 3) and data.nuclear_charges species.
read_npz_entry(data) ==
    LET a == shape_atom_inputs(data.frames, data.atoms, data.nuclear_charges)
    IN  IF a.raised # "" THEN Raised("read_npz_entry", a.raised)
        ELSE Built("read_npz_entry",
                   [f \in 1..data.frames |-> data.nuclear_charges], a.rows,
                   [f \in 1..data.frames |-> 1],
                   TRUE, <<data.frames * data.atoms, 3, 1>>, <<>>)

\* The raw inputs of the builders.
QcRows ==
    [kind : {"qc"}, symbols : 1..MaxAtoms, geometry : FlatLens,
     fields : 0..MaxEnergyNames, energy_target_names : 1..MaxEnergyNames,
     force_data : SeqsUpTo(FlatLens, MaxForceNames) \cup {<<>>}]

Conformations ==
    [atNUM : 1..MaxAtoms, atXYZ : 1..MaxAtoms,
     fields : {Qm7xEnergyNames, Qm7xEnergyNames \cup {"eAT"}, {"ePBE0"}},
     forces_agree : BOOLEAN]

Qm7xMolecules ==
    [kind : {"qm7x"}, confs : SeqsUpTo(Conformations, MaxConfs)]

NpzFiles ==
    [kind : {"npz"}, nuclear_charges : 1..MaxAtoms, frames : 1..MaxFrames,
     atoms : 1..MaxAtoms]

ExtractEntry ==
    /\ raw_in.kind = "qc"
    /\ rec' = extract_entry(raw_in)
    /\ UNCHANGED raw_in

ReadMol ==
    /\ raw_in.kind = "qm7x"
    /\ rec' = read_mol(raw_in.confs)
    /\ UNCHANGED raw_in

ReadNpzEntry ==
    /\ raw_in.kind = "npz"
    /\ rec' = read_npz_entry(raw_in)
    /\ UNCHANGED raw_in

BuilderInit ==
    /\ \/ raw_in \in QcRows
       \/ raw_in \in Qm7xMolecules
       \/ raw_in \in NpzFiles
    /\ rec = NoRecord

BuilderIdle ==
    /\ raw_in = [kind |-> "none"]
    /\ rec = NoRecord

-----------------------------------------------------------------------------
(* Specifications *)

InitLocalPaths == {Home \o <<"/c", "/d">>, <<"/x", "/x", "/d">>}
InitRemoteKeys == {<<GsRoot, "/d">>, <<GsRoot, "/x", "/d">>}

CacheInit ==
    /\ cache_dir \in {DefaultCacheDir(e) : e \in EnvCacheDirs}
    /\ \E D \in SUBSET InitLocalPaths :
          /\ local_files = [p \in D |-> "v1"]
          /\ local_dirs = UNION {Ancestors(Dirname(p)) : p \in D}
    /\ \E K \in SUBSET InitRemoteKeys : remote_objs = [k \in K |-> "v2"]
    /\ remote_dirs = {}
    /\ strict_mkdirs \in BOOLEAN
    /\ last = NoCall
    /\ calls = 0

CacheIdle ==
    /\ cache_dir = DefaultCacheDir(None)
    /\ local_files = <<>>
    /\ local_dirs = {}
    /\ remote_objs = <<>>
    /\ remote_dirs = {}
    /\ strict_mkdirs = TRUE
    /\ last = NoCall
    /\ calls = 0

\* The cache manager: calls of the module's functions, one after another.
Init == CacheInit /\ StoreIdle /\ AdapterIdle /\ BuilderIdle /\ RootIdle

Next ==
    \/ \E d \in CacheDirArgs : set_cache_dir(d) /\ UNCHANGED <<store_vars, adapter_vars, builder_vars, history_vars>>
    \/ GetLocalCache /\ UNCHANGED <<store_vars, adapter_vars, builder_vars, history_vars>>
    \/ \E p \in LocalPaths, ow \in BOOLEAN, net \in Nets :
          pull_locally(p, ow, net) /\ UNCHANGED <<store_vars, adapter_vars, builder_vars, history_vars>>
    \/ \E p \in LocalPaths, ow \in BOOLEAN, net \in Nets :
          push_remote(p, ow, net) /\ UNCHANGED <<store_vars, adapter_vars, builder_vars, history_vars>>
    \/ \E p \in LocalPaths : copy_exists(p) /\ UNCHANGED <<store_vars, adapter_vars, builder_vars, history_vars>>

Spec == Init /\ [][Next]_vars

\* Writers of persisted stores, interleaved step by step.
StoreSpecInit == CacheIdle /\ StoreInit /\ AdapterIdle /\ BuilderIdle /\ RootIdle

StoreNext ==
    \/ \E w \in Writers, p \in StorePaths :
          create_hdf5_file(w, p) /\ UNCHANGED <<cache_vars, adapter_vars, builder_vars, history_vars>>
    \/ \E w \in Writers, p \in StorePaths, ow \in BOOLEAN :
          PullCheck(w, p, ow) /\ UNCHANGED <<cache_vars, adapter_vars, builder_vars, history_vars>>
    \/ \E w \in Writers : PullOpen(w) /\ UNCHANGED <<cache_vars, adapter_vars, builder_vars, history_vars>>
    \/ \E w \in Writers : WriteArray(w) /\ UNCHANGED <<cache_vars, adapter_vars, builder_vars, history_vars>>
    \/ \E w \in Writers : CloseFile(w) /\ UNCHANGED <<cache_vars, adapter_vars, builder_vars, history_vars>>
    \/ \E w \in Writers : FailWrite(w) /\ UNCHANGED <<cache_vars, adapter_vars, builder_vars, history_vars>>

SpecStore == StoreSpecInit /\ [][StoreNext]_vars

\* The adapters' read_raw_entries, called on the raw files found on disk.
AdapterSpecInit == CacheIdle /\ StoreIdle /\ AdapterInit /\ BuilderIdle /\ RootIdle

AdapterNext ==
    \/ QM7X_read_raw_entries /\ UNCHANGED <<cache_vars, store_vars, builder_vars, history_vars>>
    \/ GDML_read_raw_entries /\ UNCHANGED <<cache_vars, store_vars, builder_vars, history_vars>>
    \/ Metcalf_read_raw_entries /\ UNCHANGED <<cache_vars, store_vars, builder_vars, history_vars>>

SpecAdapter == AdapterSpecInit /\ [][AdapterNext]_vars

\* The record builders, each applied to a raw input of its kind.
BuilderSpecInit == CacheIdle /\ StoreIdle /\ AdapterIdle /\ BuilderInit /\ RootIdle

BuilderNext ==
    \/ ExtractEntry /\ UNCHANGED <<cache_vars, store_vars, adapter_vars, history_vars>>
    \/ ReadMol /\ UNCHANGED <<cache_vars, store_vars, adapter_vars, history_vars>>
    \/ ReadNpzEntry /\ UNCHANGED <<cache_vars, store_vars, adapter_vars, history_vars>>

SpecBuilder == BuilderSpecInit /\ [][BuilderNext]_vars

\* The cache root: set_cache_dir and get_local_cache in any order, from the
\* root the environment gives at import.
RootDirArgs == CacheDirArgs \cup {<<"$HOME", "/c">>, <<"~", "/x", "/..", "/c">>}

RootSpecInit ==
    /\ CacheInit
    /\ \E e \in EnvCacheDirs : cache_dir = DefaultCacheDir(e) /\ configured = FromEnv(e)
    /\ StoreIdle /\ AdapterIdle /\ BuilderIdle

RootNext ==
    \/ \E d \in RootDirArgs :
          SetCacheDir(d) /\ UNCHANGED <<store_vars, adapter_vars, builder_vars>>
    \/ GetLocalCache /\ UNCHANGED <<store_vars, adapter_vars, builder_vars, history_vars>>

SpecRoot == RootSpecInit /\ [][RootNext]_vars

-----------------------------------------------------------------------------
(* Cache manager: properties *)

IsTransferCall == last.op \in {"pull_locally", "push_remote"}

\* What follows the cache root in a path that lies under it.
SuffixOf(root, path) == SubSeq(path, Len(root) + 1, Len(path))

\* C1: a pull_locally(local_path, overwrite=False) of a path whose file is on
\* disk makes no transfer, changes neither the local files nor the bucket,
\* and returns local_path.  (The cache roots of CacheDirArgs are directories:
\* get_local_cache can always create them.)
C1_PullNoOpWhenLocalExists ==
    [][(/\ calls' = calls + 1
        /\ last'.op = "pull_locally"
        /\ ~last'.overwrite
        /\ last'.local_path \in DOMAIN local_files)
       => (/\ last'.transfers = 0
           /\ local_files' = local_files
           /\ remote_objs' = remote_objs
           /\ last'.outcome = "ok"
           /\ last'.ret = last'.local_path)]_vars

\* C1 witness: such a pull returned while the remote object was there to fetch.
C1_Witness ==
    /\ last.op = "pull_locally"
    /\ ~last.overwrite
    /\ last.local_existed
    /\ last.remote_existed
    /\ last.ret = last.local_path

\* C2 (as claimed): with the network up, a pull of a path that is neither on
\* disk nor in the bucket ends in RemoteObjectMissingError.
C2_PullMissingIsTypedError ==
    (/\ last.op = "pull_locally"
     /\ ~last.local_existed
     /\ ~last.remote_existed
     /\ last.net_first = "ok")
    => last.outcome = "RemoteObjectMissingError"

\* C3 (as claimed): a push_remote(local_path, overwrite=False) of a file on
\* disk whose remote object exists returns normally and uploads nothing.
C3_PushNoOpWhenRemoteExists ==
    (/\ last.op = "push_remote"
     /\ ~last.overwrite
     /\ last.local_existed
     /\ last.remote_existed)
    => (last.outcome = "ok" /\ last.transfers = 0)

\* C4 (as claimed): no push_remote fails because the remote parent directory
\* is already there.
C4_PushMkdirsIdempotent ==
    last.op = "push_remote" => last.outcome # "FileExistsError"

\* C5 (as claimed): for a path under the cache root, the remote path is the
\* remote root followed by the path's suffix, unchanged.
C5_RemotePathDiffersOnlyInRoot ==
    (/\ last.op \in {"pull_locally", "push_remote", "copy_exists"}
     /\ IsPrefix(last.local_cache, last.local_path))
    => last.remote_path =
         get_remote_cache(last.op = "push_remote" /\ last.overwrite)
           \o SuffixOf(last.local_cache, last.local_path)

\* C8: a pull or push makes at most one transfer attempt, and when that
\* attempt fails the call ends in an error and returns nothing.
C8_NoInternalRetry ==
    IsTransferCall =>
        /\ last.transfers <= 1
        /\ (last.transfers = 1 /\ last.net_first # "ok")
             => (last.outcome # "ok" /\ last.ret = <<>>)

\* C8 witness: the one attempt failed although the object was there and a
\* second attempt would have succeeded or not; the call ended in the error.
C8_Witness ==
    /\ IsTransferCall
    /\ last.transfers = 1
    /\ last.net_first = "refused"
    /\ last.remote_existed
    /\ last.local_existed
    /\ last.outcome = "TransportError"

-----------------------------------------------------------------------------
(* Persisted store: properties *)

\* C6 (as claimed): no two writers write the same store path at the same time.
C6_OneWriterPerPath ==
    \A w1, w2 \in Writers :
        (w1 # w2 /\ wpc[w1] = "writing" /\ wpc[w2] = "writing")
        => wpath[w1] # wpath[w2]

\* C7 (as claimed): when a write begun by create_hdf5_file fails before its
\* close, and no other writer has touched the path, the destination holds
\* what it held before the write.
C7_FailedWriteLeavesDestination ==
    \A w \in Writers :
        (/\ wkind[w] = "create_hdf5_file"
         /\ wpc[w] = "failed"
         /\ \A v \in Writers \ {w} : wpath[v] # wpath[w])
        => store[wpath[w]] = wbefore[w]

-----------------------------------------------------------------------------
(* Adapters: properties *)

Required(adapter) == {f \in AllRaw : f.ds = adapter}

BadHeader(b) == ~b.count_ok \/ ~b.has_header

\* C9 (as claimed): read_raw_entries of QM7X, GDML or Metcalf with a required
\* raw file missing ends in RawSourceMissingError and returns no records.
C9_MissingRawIsRawSourceMissingError ==
    (/\ result.adapter \in {"qm7x", "gdml", "metcalf"}
     /\ ~(Required(result.adapter) \subseteq raw_present))
    => (result.outcome = "RawSourceMissingError" /\ result.records = <<>>)

\* C10 (as claimed): when an .xyz file holds a block whose header does not
\* parse, Metcalf.read_raw_entries ends in an error.
C10_BadBlockIsFatal ==
    (/\ result.adapter = "metcalf"
     /\ Required("metcalf") \subseteq raw_present
     /\ \E i \in 1..Len(xyz_files) : \E j \in 1..Len(xyz_files[i]) :
           BadHeader(xyz_files[i][j]))
    => result.outcome # "ok"

-----------------------------------------------------------------------------
(* Record builders: properties *)

\* Whether extract_entry has a reason to raise on df other than a force
\* array that is empty.
QcRowMalformed(df) ==
    \/ ~CanReshape3(df.geometry)
    \/ Rows3(df.geometry) # df.symbols
    \/ df.energy_target_names > df.fields
    \/ \E j \in 1..Len(df.force_data) :
          /\ df.force_data[j] # 0
          /\ ~CanReshape3(df.force_data[j]) \/ Rows3(df.force_data[j]) \notin {df.symbols, 1}

\* C11: a record built by extract_entry with a non-empty list of force
\* methods has forces of shape (n_atoms, 3, number of force methods); the
\* slice of a method whose source array is empty is NaN throughout, the slice
\* of a method with data holds the source values (a source of one row being
\* repeated for every atom), whatever the other methods hold; and an empty
\* source array is never the reason extract_entry raises.
C11_MissingForcesAreNaN ==
    rec.builder = "extract_entry" =>
        /\ rec.raised # "" => QcRowMalformed(raw_in)
        /\ (rec.raised = "" /\ Len(raw_in.force_data) > 0) =>
              LET n == Sum(rec.n_atoms)
                  data == raw_in.force_data
              IN  /\ rec.has_forces
                  /\ rec.forces_shape = <<n, 3, Len(data)>>
                  /\ DOMAIN rec.forces = (1..n) \X (1..3) \X (1..Len(data))
                  /\ \A j \in 1..Len(data), a \in 1..n, c \in 1..3 :
                        rec.forces[<<a, c, j>>] =
                            IF data[j] = 0 THEN NaN
                            ELSE SourceAt(j, IF Rows3(data[j]) = 1 THEN 1 ELSE a, c)

\* A record of two atoms whose first force method has no data and whose
\* second has data for both atoms.
C11_Witness ==
    /\ rec.builder = "extract_entry"
    /\ rec.raised = ""
    /\ raw_in.symbols = 2
    /\ raw_in.force_data = <<0, 6>>
    /\ rec.forces[<<2, 3, 1>>] = NaN
    /\ rec.forces[<<2, 3, 2>>] = SourceValue(2, 6)

\* C12 (as claimed): in every record an adapter returns, the number of rows
\* of atomic_inputs equals n_atoms (the sum of its entries when the record
\* holds several frames): for the records of read_raw_entries, which Metcalf
\* builds with content_to_xyz, and for those of extract_entry, read_mol and
\* read_npz_entry.
C12_AtomRowsEqualNAtoms ==
    /\ result.outcome = "ok" =>
          \A i \in 1..Len(result.records) :
              ~result.records[i].is_none =>
                  result.records[i].rows = result.records[i].n_atoms
    /\ (rec.builder # "none" /\ rec.raised = "") => rec.rows = Sum(rec.n_atoms)

\* C13 (as claimed): every record of Metcalf.read_raw_entries carries as
\* many energies as Metcalf declares energy methods, every conformation row
\* of read_mol carries one energy per QM7X energy name, and every record of
\* extract_entry carries len(energy_target_names) energies.
C13_EnergiesMatchDeclaredCount ==
    /\ (result.adapter = "metcalf" /\ result.outcome = "ok") =>
          \A i \in 1..Len(result.records) :
              ~result.records[i].is_none =>
                  result.records[i].n_energies = NumMetcalfEnergyMethods
    /\ (rec.builder = "read_mol" /\ rec.raised = "") =>
          \A c \in 1..Len(rec.energies) :
              rec.energies[c] = Cardinality(Qm7xEnergyNames)
    /\ (rec.builder = "extract_entry" /\ rec.raised = "") =>
          rec.energies = <<raw_in.energy_target_names>>

-----------------------------------------------------------------------------
(* Cache root: properties *)

\* A step that is a call of set_cache_dir(None).
SetNoneStep ==
    /\ calls' = calls + 1
    /\ last'.op = "set_cache_dir"
    /\ last'.local_path = None

\* The path get_local_cache returned in the step just taken, if it returned.
GetReturned == last.op = "get_local_cache" /\ last.outcome = "ok"

\* C14 (as claimed): get_local_cache returns the normalized, user-expanded
\* path of the last set_cache_dir argument that was not None, or the default
\* derived from OPENQDC_CACHE_DIR when there was none; that directory exists
\* when it returns; set_cache_dir(None) leaves the configured root as it was.
C14_RootIsNormalizedExpandedArg ==
    [][/\ GetReturned' =>
             /\ last'.ret = IF configured'.by = "env"
                            THEN ExpandUser(ExpandVars(DefaultCacheDir(configured'.value)))
                            ELSE NormPath(ExpandUser(configured'.value))
             /\ last'.ret \in local_dirs'
       /\ SetNoneStep => cache_dir' = cache_dir]_vars

\* C14 (amended): the path returned is the normalized, user-expanded argument
\* with its environment variables expanded, and a leading "~" expanded again,
\* at the time of the get_local_cache call; the rest as claimed.
C14_RootIsExpandedAtUse ==
    [][/\ GetReturned' =>
             /\ last'.ret = IF configured'.by = "env"
                            THEN ExpandUser(ExpandVars(DefaultCacheDir(configured'.value)))
                            ELSE ExpandUser(ExpandVars(NormPath(ExpandUser(configured'.value))))
             /\ last'.ret \in local_dirs'
       /\ SetNoneStep => cache_dir' = cache_dir]_vars

\* get_local_cache has returned the root set by set_cache_dir("$HOME/c").
C14_Witness ==
    /\ GetReturned
    /\ configured = FromCall(<<"$HOME", "/c">>)
    /\ last.ret = Home \o <<"/c">>
    /\ last.ret \in local_dirs

-----------------------------------------------------------------------------
(* Remote roots: properties *)

\* C15 (as claimed): the remote path push_remote uploads to lies under the
\* read/write root, with overwrite set or not; the remote path pull_locally
\* and copy_exists read from lies under the read-only public root; and the
\* remote path is never the local path itself.
C15_RemotePathUnderItsRoot ==
    /\ last.op = "push_remote" => IsPrefix(<<GsRoot>>, last.remote_path)
    /\ last.op \in {"pull_locally", "copy_exists"} =>
          IsPrefix(<<HttpsRoot>>, last.remote_path)
    /\ last.op \in {"pull_locally", "push_remote", "copy_exists"} =>
          last.remote_path # last.local_path

=============================================================================
